---- MODULE Spec2Model ----
(***************************************************************************)
(* Model of the face-position service (src/main.go): the versioned         *)
(* FaceStore, the detector loop that publishes one Snapshot per tick, and   *)
(* the HTTP layer (/healthz, /faces with conditional GET, static files).    *)
(*                                                                          *)
(* Strings that the code builds by concatenation (the ETag) are sequences   *)
(* of one-character strings, so that concatenation is real.  Instants are   *)
(* integers: 0 is the zero time.Time, the wall clock `now` starts at 1.     *)
(***************************************************************************)
EXTENDS Integers, Sequences, FiniteSets, TLC

(* ------------------------------- bounds -------------------------------- *)

\* number of ticks that enter ticker.C in a run
MaxTicks == 1
\* number of ticks that enter ticker.C in a run of the loop specification
MaxLoopTicks == 3
\* number of dropped ticks the loop specification keeps count of
MaxLoopDrops == 2
\* number of Close calls made on one detector in the port specification
MaxCloseCalls == 2
\* number of Set calls made in a run of the writers specification
MaxSetCalls == 3
\* number of HTTP requests the server accepts in a run
MaxRequests == 3
\* longest inference output fed to Detect in the detection specification
MaxRawRows == 3
\* largest version fed to toETag in the token specification
MaxETagVersion == 37
\* frames fed to toETag range over -MaxETagFrame .. MaxETagFrame
MaxETagFrame == 2

\* the clients of the HTTP API: each has at most one request in flight,
\* handled by a goroutine of its own
Clients == { 1, 2 }

(* --------------------------- data definitions --------------------------- *)

\* a Go slice of detections: nil and empty differ (JSON null against [])
NilSlice == [isNil |-> TRUE, elems |-> <<>>]
MakeSlice(s) == [isNil |-> FALSE, elems |-> s]

Rect(x, y, w, h) == [X |-> x, Y |-> y, Width |-> w, Height |-> h]

\* a plausible slip: the id of a detection is left at its zero value
DetectionNoID(id, bbox, score, ts) ==
    [ID |-> 0, BBox |-> bbox, Score |-> score, Timestamp |-> ts]

Detection(id, bbox, score, ts) ==
    [ID |-> id, BBox |-> bbox, Score |-> score, Timestamp |-> ts]

Snapshot(source, frame, fw, fh, dets, at) ==
    [Source |-> source, Frame |-> frame, FrameWidth |-> fw,
     FrameHeight |-> fh, Detections |-> dets, GeneratedAt |-> at]

\* the zero value of Snapshot
ZeroSnapshot == Snapshot("", 0, 0, 0, NilSlice, 0)

\* a plausible slip: the counter does not start at zero
NewFaceStoreCounted == [snap |-> ZeroSnapshot, version |-> 1]

\* store := &FaceStore{}
NewFaceStore == [snap |-> ZeroSnapshot, version |-> 0]

(* --------------------------------- utils -------------------------------- *)

Digits36 ==
    << "0", "1", "2", "3", "4", "5", "6", "7", "8", "9", "a", "b",
       "c", "d", "e", "f", "g", "h", "i", "j", "k", "l", "m", "n",
       "o", "p", "q", "r", "s", "t", "u", "v", "w", "x", "y", "z" >>

RECURSIVE FormatUint(_, _)
\* strconv.FormatUint(n, base)
FormatUint(n, base) ==
    IF n < base
    THEN << Digits36[n + 1] >>
    ELSE FormatUint(n \div base, base) \o << Digits36[(n % base) + 1] >>

\* strconv.FormatInt(i, base)
FormatInt(i, base) ==
    IF i < 0 THEN << "-" >> \o FormatUint(-i, base) ELSE FormatUint(i, base)

\* a plausible slip: the sign of the frame is lost
toETagNoSign(version, frame) ==
    FormatUint(version, 36) \o << "-" >>
        \o FormatUint(IF frame < 0 THEN -frame ELSE frame, 36)

toETag(version, frame) ==
    FormatUint(version, 36) \o << "-" >> \o FormatInt(frame, 36)

\* etag := `W/"` + toETag(ver, snap.Frame) + `"`
WeakETag(version, frame) ==
    << "W", "/", "\"" >> \o toETag(version, frame) \o << "\"" >>

(* ------------------------------- detector ------------------------------- *)

\* cfg.Source as main passes it (FACE_SOURCE default)
SourceName == "0"

\* FACE_CONF default, in tenths (0.5)
DefaultConfidence == 5

\* a raw row of the inference output, confidence and corners in tenths
RawRow(conf, x1n, y1n, x2n, y2n) ==
    [conf |-> conf, x1n |-> x1n, y1n |-> y1n, x2n |-> x2n, y2n |-> y2n]

\* what one call of Detect finds: whether a frame was read, its size, and
\* the rows of the network output (none: the output was empty or short)
DetectInputs ==
    { [ok |-> FALSE, cols |-> 0, rows |-> 0, dets |-> << >>],
      [ok |-> TRUE, cols |-> 640, rows |-> 480,
       dets |-> << RawRow(3, 1, 1, 2, 2), RawRow(9, -1, 2, 5, 1) >>] }

\* a float32 that is not a number, apart from every finite value (tenths)
NaN == 0 - 1000

\* a plausible slip: a confidence equal to the threshold is dropped
FloatLessOrEqual(a, b) == a # NaN /\ b # NaN /\ a <= b

\* a < b on float32: false when either side is not a number
FloatLess(a, b) == a # NaN /\ b # NaN /\ a < b

\* Go's integer division and float-to-int conversion truncate toward zero
TruncDiv(a, b) == IF a >= 0 THEN a \div b ELSE -((-a) \div b)

\* int(flat.GetFloatAt(i, k) * w), the coordinate given in tenths
ScaleToPixels(n, dim) == TruncDiv(n * dim, 10)

\* one iteration of the loop body of Detect for a kept row i (0-based)
ClampRow(row, i, w, h, ts) ==
    LET x1a == ScaleToPixels(row.x1n, w)
        y1a == ScaleToPixels(row.y1n, h)
        x2a == ScaleToPixels(row.x2n, w)
        y2a == ScaleToPixels(row.y2n, h)
        x1 == IF x1a < 0 THEN 0 ELSE x1a
        y1 == IF y1a < 0 THEN 0 ELSE y1a
        x2b == IF x2a < x1 THEN x1 ELSE x2a
        y2b == IF y2a < y1 THEN y1 ELSE y2a
        x2 == IF x2b > w THEN w ELSE x2b
        y2 == IF y2b > h THEN h ELSE y2b
    IN Detection(i, Rect(x1, y1, x2 - x1, y2 - y1), row.conf, ts)

RECURSIVE DetectRows(_, _, _, _, _, _, _)
\* for i := 0; i < rows; i++ { ... }, rows i+1 .. Len(dets) still to visit
DetectRows(dets, i, out, thresh, w, h, ts) ==
    IF i >= Len(dets)
    THEN out
    ELSE IF FloatLess(dets[i + 1].conf, thresh)
         THEN DetectRows(dets, i + 1, out, thresh, w, h, ts)
         ELSE DetectRows(dets, i + 1,
                         Append(out, ClampRow(dets[i + 1], i, w, h, ts)),
                         thresh, w, h, ts)

\* a plausible slip: without a frame the size of the last frame is reported
DetectLastSize(in, thresh, ts) ==
    [source |-> SourceName, faces |-> NilSlice, fw |-> 640, fh |-> 480]

\* DNNDetector.Detect: (source, detections, frame width, frame height)
Detect(in, thresh, ts) ==
    IF ~in.ok
    THEN [source |-> SourceName, faces |-> NilSlice, fw |-> 0, fh |-> 0]
    ELSE IF Len(in.dets) = 0
         THEN [source |-> SourceName, faces |-> NilSlice,
               fw |-> in.cols, fh |-> in.rows]
         ELSE [source |-> SourceName,
               faces |-> MakeSlice(DetectRows(in.dets, 0, << >>, thresh,
                                              in.cols, in.rows, ts)),
               fw |-> in.cols, fh |-> in.rows]

\* the Snapshot literal of the loop body, for frame counter f, what Detect
\* finds with threshold thresh and the clock reading t
BuildSnapshotWith(f, in, thresh, t) ==
    LET out == Detect(in, thresh, t)
    IN Snapshot(out.source, f, out.fw, out.fh, out.faces, t)

\* the same with the threshold main passes when FACE_CONF is not set
BuildSnapshot(f, in, t) == BuildSnapshotWith(f, in, DefaultConfidence, t)

\* cfg.Confidence when NewDNNDetector finds it zero or negative (0.5)
FallbackConfidence == 5

\* a plausible slip: cfg.Confidence is applied as given
ConfThreshAsGiven(c) == c

\* d.confThresh as NewDNNDetector sets it from cfg.Confidence
ConfThresh(c) == IF c <= 0 THEN FallbackConfidence ELSE c

\* the confidences and the boxes (x1n, y1n, x2n, y2n) of the rows fed to
\* Detect: inside the frame, inverted with a corner left of it, inverted
\* with both corners right of it, and reaching beyond its far corner
ConfValues == { 3, 5, 6, 9 }
Boxes ==
    { << 1, 1, 2, 2 >>, << -1, 2, 5, 1 >>, << 12, 2, 11, 5 >>,
      << 5, 5, 12, 12 >> }
RawRows ==
    { RawRow(c, b[1], b[2], b[3], b[4]) : c \in ConfValues, b \in Boxes }

\* the inference outputs of up to MaxRawRows rows
RawOutputs == UNION { [1 .. n -> RawRows] : n \in 0 .. MaxRawRows }

\* what Detect can find: no frame, or a 640 by 480 frame with an output
FrameInputs ==
    { [ok |-> FALSE, cols |-> 0, rows |-> 0, dets |-> << >>] } \cup
    { [ok |-> TRUE, cols |-> 640, rows |-> 480, dets |-> d] :
        d \in RawOutputs }

\* the values of cfg.Confidence: FACE_CONF=-0.2, FACE_CONF=0, not set,
\* FACE_CONF=0.7
ConfigValues == { 0 - 2, 0, DefaultConfidence, 7 }

(* ------------------------------ HTTP values ----------------------------- *)

StatusOK == 200
StatusNotModified == 304

\* an absent header (Header.Get returns "")
NoHeader == << >>

\* a header map with nothing set; Content-Type is kept as the media type
\* followed by its parameters
EmptyHeaders ==
    [acao |-> "", ctype |-> << >>, cache |-> "", etag |-> NoHeader]

\* a plausible slip: the Cache-Control line is missing
FacesHeadersNoCache ==
    [acao |-> "*", ctype |-> << "application/json", "charset=utf-8" >>,
     cache |-> "", etag |-> NoHeader]

\* the three w.Header().Set calls that open the /faces handler
FacesHeaders ==
    [acao |-> "*", ctype |-> << "application/json", "charset=utf-8" >>,
     cache |-> "no-store", etag |-> NoHeader]

\* json of one Detection; landmarks is omitted (omitempty, never set)
EncodeDetection(d) ==
    [id |-> d.ID,
     bbox |-> [x |-> d.BBox.X, y |-> d.BBox.Y,
               width |-> d.BBox.Width, height |-> d.BBox.Height],
     score |-> d.Score, ts |-> d.Timestamp]

\* enc.Encode(snap): the JSON document with the wire names of the fields;
\* a nil slice is written as null, an empty one as []
Encode(snap) ==
    [source |-> snap.Source, frame |-> snap.Frame,
     frame_width |-> snap.FrameWidth, frame_height |-> snap.FrameHeight,
     detections |->
        [null |-> snap.Detections.isNil,
         items |-> [i \in 1 .. Len(snap.Detections.elems) |->
                        EncodeDetection(snap.Detections.elems[i])]],
     generated_at |-> snap.GeneratedAt]

\* enc.Encode(snap) returns an error and writes nothing: encoding/json
\* has no text for a float64 that is not a number
EncodeFails(snap) ==
    \E i \in 1 .. Len(snap.Detections.elems) :
        snap.Detections.elems[i].Score = NaN

NoRequest == [path |-> "", inm |-> NoHeader, inmSeq |-> -1]
\* what store.Get returned, and with it the number of completed Sets and
\* the argument of the last of them when Get took effect
NoGot == [snap |-> ZeroSnapshot, ver |-> 0, seq |-> 0, arg |-> ZeroSnapshot]
NoResponse ==
    [path |-> "", status |-> 0, header |-> EmptyHeaders, body |-> << >>,
     inm |-> NoHeader, inmSeq |-> -1, read |-> NoGot, locked |-> FALSE]
\* what a client keeps of the last 200 response of /faces it received: the
\* ETag, and the number of completed Sets the response rested on
NoCache == [etag |-> NoHeader, seq |-> -1]

\* the tasks of the writers specification: each calls Set, or Get
Writers == { "w1", "w2" }
Readers == { "r1" }

(* --------------------------------- state -------------------------------- *)

VARIABLES
    proc,        \* "running", "exited" or "fatal": the process
    art,         \* the prototxt and model paths main passes to the detector
    atExit,      \* what the process was doing when it ended
    mainPC,      \* where main is
    ctxDone,     \* the NotifyContext context is cancelled
    srv,         \* http.Server: "new", "serving", "shutdown", "drained"
    store,       \* FaceStore.snap and FaceStore.version
    mu,          \* FaceStore.mu: a writer, or a set of readers
    detPC,       \* where the StartDetectorLoop goroutine is
    port,        \* the DNNDetector: "none", "open" or "closed"
    frame,       \* its frame counter
    setArg,      \* the Snapshot it passes to Set
    ticks,       \* ticks put into ticker.C (the clock advances with them)
    dropped,     \* ticks the ticker fired and could not put into ticker.C
    tickerC,     \* the number of ticks ticker.C holds
    lastRead,    \* the last d.cap.Read: "none", "frame" or "noframe"
    hpc,         \* per request goroutine: where the handler is
    req,         \* per request goroutine: path and If-None-Match
    hdr,         \* per request goroutine: the response header map
    got,         \* per request goroutine: what store.Get returned
    resp,        \* per request goroutine: the response it has written
    nset,        \* the number of completed Set calls
    lastSet,     \* the argument of the last completed Set call
    cache,       \* per client: the ETag of its last 200 of /faces
    nreq,        \* requests accepted so far
    etagIn,      \* token specification: the two (version, frame) inputs
    etagOut,     \* token specification: the two tokens
    detIn,       \* detection specification: threshold and inference output
    detOut,      \* detection specification: the snapshot published for it
    dnn,         \* port specification: a DNNDetector and the calls made on it
    wpc,         \* writers specification: where each task is inside Set
    warg,        \* writers specification: the Snapshot of each task in Set
    wsets,       \* writers specification: Set calls made so far
    rpc,         \* writers specification: where each task is inside Get
    rgot         \* writers specification: what Get has returned, per task

ghostVars == << nset, lastSet >>

vars ==
    << proc, art, atExit, mainPC, ctxDone, srv, store, mu, detPC, port,
       frame, setArg, ticks, dropped, tickerC, lastRead, hpc, req, hdr, got,
       resp, cache, nreq, nset, lastSet, etagIn, etagOut, detIn, detOut, dnn,
       wpc, warg, wsets, rpc, rgot >>

mainVars == << proc, art, atExit, mainPC, ctxDone, srv >>
tickerVars == << ticks, dropped, tickerC >>
detVars == << detPC, port, frame, setArg, tickerVars, lastRead >>
httpVars == << hpc, req, hdr, got, resp, cache, nreq >>
etagVars == << etagIn, etagOut >>
detectVars == << detIn, detOut >>
portVars == << dnn >>
taskVars == << wpc, warg, wsets, rpc, rgot >>
funVars == << etagVars, detectVars, portVars, taskVars >>

\* time.Now(): the clock has advanced by one unit at every tick
Now == 1 + ticks

\* the prototxt and model paths before main has read its environment
NoArtifacts == [prototxt |-> "", model |-> ""]

\* a DNNDetector before NewDNNDetector has run: made is "no", "ok" or the
\* error returned; cap and net are "nil" or "handle"; capCloses and
\* netCloses count the calls of cap.Close() and net.Close(); closes counts
\* the calls of Close()
NoDetector ==
    [cfg |-> [art |-> NoArtifacts, video |-> "", loads |-> FALSE],
     made |-> "no", cap |-> "nil", net |-> "nil",
     capCloses |-> 0, netCloses |-> 0, closes |-> 0]

\* the process has not ended
NoExit ==
    [srv |-> "new", nreq |-> 0, inflight |-> {}, unanswered |-> {},
     detPC |-> "none", port |-> "none", art |-> NoArtifacts]

\* the memory of the process at position pc of main, before the detector
\* goroutine is started: the store and the context are as main creates them
Memory(pc) ==
    [art |-> NoArtifacts, mainPC |-> pc, ctxDone |-> FALSE, srv |-> "new",
     port |-> "none",
     store |-> NewFaceStore, mu |-> [writer |-> FALSE, readers |-> {}],
     detPC |-> "none", frame |-> 0, setArg |-> ZeroSnapshot, ticks |-> 0,
     dropped |-> 0, tickerC |-> 0, lastRead |-> "none",
     hpc |-> [c \in Clients |-> "idle"],
     req |-> [c \in Clients |-> NoRequest],
     hdr |-> [c \in Clients |-> EmptyHeaders],
     got |-> [c \in Clients |-> NoGot],
     resp |-> [c \in Clients |-> NoResponse],
     cache |-> [c \in Clients |-> NoCache],
     nreq |-> 0, nset |-> 0, lastSet |-> ZeroSnapshot]

ProgramInit ==
    /\ proc = "running"
    /\ atExit = NoExit
    /\ LET m == Memory("getenv")
       IN
          /\ art = m.art
          /\ port = m.port
          /\ mainPC = m.mainPC
          /\ ctxDone = m.ctxDone
          /\ srv = m.srv
          /\ store = m.store
          /\ mu = m.mu
          /\ detPC = m.detPC
          /\ frame = m.frame
          /\ setArg = m.setArg
          /\ ticks = m.ticks
          /\ dropped = m.dropped
          /\ tickerC = m.tickerC
          /\ lastRead = m.lastRead
          /\ hpc = m.hpc
          /\ req = m.req
          /\ hdr = m.hdr
          /\ got = m.got
          /\ resp = m.resp
          /\ cache = m.cache
          /\ nreq = m.nreq
          /\ nset = m.nset
          /\ lastSet = m.lastSet

\* the process ends: its goroutines and its memory are gone; atExit keeps
\* what they were doing at that moment (inflight: the handlers that had
\* not returned; unanswered: those of them that had not yet written their
\* response)
Exit(how) ==
    /\ proc' = how
    /\ atExit' = [srv |-> srv, nreq |-> nreq,
                  inflight |-> { c \in Clients : hpc[c] # "idle" },
                  unanswered |-> { c \in Clients :
                                     hpc[c] \notin { "idle", "written" } },
                  detPC |-> detPC, port |-> port, art |-> art]
    /\ LET m == Memory("done")
       IN
          /\ art' = m.art
          /\ port' = m.port
          /\ mainPC' = m.mainPC
          /\ ctxDone' = m.ctxDone
          /\ srv' = m.srv
          /\ store' = m.store
          /\ mu' = m.mu
          /\ detPC' = m.detPC
          /\ frame' = m.frame
          /\ setArg' = m.setArg
          /\ ticks' = m.ticks
          /\ dropped' = m.dropped
          /\ tickerC' = m.tickerC
          /\ lastRead' = m.lastRead
          /\ hpc' = m.hpc
          /\ req' = m.req
          /\ hdr' = m.hdr
          /\ got' = m.got
          /\ resp' = m.resp
          /\ cache' = m.cache
          /\ nreq' = m.nreq
          /\ nset' = m.nset
          /\ lastSet' = m.lastSet

\* no detector has been made apart from the one of the loop
NoPort == dnn = NoDetector

\* no task but the loop and the handlers uses the store
NoTasks ==
    /\ wpc = [w \in Writers |-> "idle"]
    /\ warg = << >>
    /\ wsets = 0
    /\ rpc = [r \in Readers |-> "idle"]
    /\ rgot = << >>

Init ==
    /\ ProgramInit
    /\ etagIn = << >>
    /\ etagOut = << >>
    /\ detIn = << >>
    /\ detOut = << >>
    /\ NoPort
    /\ NoTasks

Running == proc = "running"

(* ---------------------------------- main -------------------------------- *)

\* what FACE_PROTOTXT or FACE_MODEL can hold: nothing, the path of a
\* readable artifact, or a path that names no file
EnvValues == { "", "custom", "missing" }

\* getenvRequired(k, def): v is the value of k, defOnDisk whether os.Stat
\* finds def; "" stands for log.Fatalf
getenvRequired(v, defOnDisk) ==
    IF v # "" THEN v ELSE IF defOnDisk THEN "default" ELSE ""

\* prototxt := getenvRequired(...); model := getenvRequired(...), and the
\* rest of main up to the go statement
MainGetenv ==
    /\ Running
    /\ mainPC = "getenv"
    /\ \E vp \in EnvValues, vm \in EnvValues, dp \in BOOLEAN, dm \in BOOLEAN :
          LET prototxt == getenvRequired(vp, dp)
              model == getenvRequired(vm, dm)
          IN /\ prototxt # ""
             /\ model # ""
             /\ art' = [prototxt |-> prototxt, model |-> model]
    /\ mainPC' = "go_detector"
    /\ UNCHANGED << proc, atExit, ctxDone, srv, store, mu, detVars, httpVars,
                    ghostVars, funVars >>

\* one of the two getenvRequired calls ends the process: the variable is
\* not set and the default file is not on disk
MainGetenvFatal ==
    /\ Running
    /\ mainPC = "getenv"
    /\ \E vp \in EnvValues, vm \in EnvValues, dp \in BOOLEAN, dm \in BOOLEAN :
          \/ getenvRequired(vp, dp) = ""
          \/ getenvRequired(vm, dm) = ""
    /\ Exit("fatal")
    /\ UNCHANGED funVars

\* go StartDetectorLoop(ctx, cfg, store)
MainGoDetector ==
    /\ Running
    /\ mainPC = "go_detector"
    /\ mainPC' = "http"
    /\ detPC' = "init"
    /\ UNCHANGED << proc, art, atExit, ctxDone, srv, store, mu, port,
                    frame, setArg, tickerVars, lastRead, httpVars, ghostVars,
                    funVars >>

\* StartHTTPServer up to srv.ListenAndServe(): the listener is bound, or
\* Shutdown has already run and ListenAndServe returns ErrServerClosed
HTTPListen ==
    /\ Running
    /\ mainPC = "http"
    /\ srv' = IF srv = "new" THEN "serving" ELSE srv
    /\ mainPC' = "serve"
    /\ UNCHANGED << proc, art, atExit, ctxDone, store, mu, detVars,
                    httpVars, ghostVars, funVars >>

\* SIGINT or SIGTERM cancels the context
Signal ==
    /\ Running
    /\ ~ctxDone
    /\ ctxDone' = TRUE
    /\ UNCHANGED << proc, art, atExit, mainPC, srv, store, mu, detVars,
                    httpVars, ghostVars, funVars >>

\* the goroutine of StartHTTPServer: <-ctx.Done(); srv.Shutdown(...)
\* closes the listener
ShutdownBegin ==
    /\ Running
    /\ mainPC \in { "http", "serve" }
    /\ ctxDone
    /\ srv \in { "new", "serving" }
    /\ srv' = "shutdown"
    /\ UNCHANGED << proc, art, atExit, mainPC, ctxDone, store, mu, detVars,
                    httpVars, ghostVars, funVars >>

\* srv.Shutdown returns nil: no request is in flight any more.  (After 5
\* seconds with a request still in flight it returns the error of
\* shutdownCtx instead; the result is dropped either way, and no run of the
\* model lasts that long.)
ShutdownReturn ==
    /\ Running
    /\ srv = "shutdown"
    /\ \A c \in Clients : hpc[c] = "idle"
    /\ srv' = "drained"
    /\ UNCHANGED << proc, art, atExit, mainPC, ctxDone, store, mu, detVars,
                    httpVars, ghostVars, funVars >>

\* ListenAndServe returns ErrServerClosed as soon as Shutdown was called
ServeClosed == srv \in { "shutdown", "drained" }

\* ListenAndServe returns ErrServerClosed; StartHTTPServer returns nil,
\* main returns and the process exits
ServeReturn ==
    /\ Running
    /\ mainPC = "serve"
    /\ ServeClosed
    /\ Exit("exited")
    /\ UNCHANGED funVars

(* ------------------------------ detector loop --------------------------- *)

\* what gocv.OpenVideoCapture gives: an error, a capture that is not
\* opened, or an opened capture
VideoOutcomes == { "error", "closed", "opened" }

\* NewDNNDetector(cfg) for the artifact paths a of cfg, the outcome of
\* opening the video source and whether the files the paths name make a
\* network: "ok" or the error returned
NewDNNDetector(a, video, loads) ==
    IF video = "error" THEN "open video source"
    ELSE IF video = "closed" THEN "video source not opened"
    ELSE IF a.prototxt = "missing" \/ a.model = "missing" \/ ~loads
         THEN "failed to load DNN model"
         ELSE "ok"

\* the paths getenvRequired can give main
ArtifactPaths == { "custom", "default", "missing" }

\* the configurations and surroundings a detector is made in
PortConfigs ==
    [art : [prototxt : ArtifactPaths, model : ArtifactPaths],
     video : VideoOutcomes, loads : BOOLEAN]

\* the detector NewDNNDetector leaves behind for configuration c: the
\* capture exists unless OpenVideoCapture returned an error, the network
\* once ReadNetFromCaffe has run, and cap.Close() has been called on the
\* path where the network is empty
MakeDetector(c) ==
    LET err == NewDNNDetector(c.art, c.video, c.loads)
    IN [cfg |-> c, made |-> err,
        cap |-> IF c.video = "error" THEN "nil" ELSE "handle",
        net |-> IF c.video = "opened" THEN "handle" ELSE "nil",
        capCloses |-> IF err = "failed to load DNN model" THEN 1 ELSE 0,
        netCloses |-> 0, closes |-> 0]

\* DNNDetector.Close: if d.cap != nil { d.cap.Close() }; d.net.Close().
\* No field of d is assigned
Close(d) ==
    [d EXCEPT !.capCloses = IF d.cap # "nil" THEN @ + 1 ELSE @,
              !.netCloses = @ + 1,
              !.closes = @ + 1]

\* NewDNNDetector succeeded; the ticker is created.  The paths of cfg are
\* not read again
DetInitOK ==
    /\ Running
    /\ detPC = "init"
    /\ \E video \in VideoOutcomes, loads \in BOOLEAN :
          NewDNNDetector(art, video, loads) = "ok"
    /\ port' = "open"
    /\ art' = NoArtifacts
    /\ detPC' = "select"
    /\ UNCHANGED << proc, atExit, mainPC, ctxDone, srv, store, mu, frame,
                    setArg, tickerVars, lastRead, httpVars, ghostVars,
                    funVars >>

\* NewDNNDetector failed: log.Fatalf ends the process
DetInitFatal ==
    /\ Running
    /\ detPC = "init"
    /\ \E video \in VideoOutcomes, loads \in BOOLEAN :
          NewDNNDetector(art, video, loads) # "ok"
    /\ Exit("fatal")
    /\ UNCHANGED funVars

\* ticker.C is a channel of capacity 1
TickerCap == 1

\* a plausible slip: the ticker queues the tick behind the one waiting
SendQueued(n) == n + 1

\* the ticker's non-blocking send on a channel holding n ticks: the tick is
\* put into the channel when there is room and dropped otherwise
Send(n) == IF n < TickerCap THEN n + 1 ELSE n

\* the ticker fires: at most max ticks enter ticker.C in a run; a tick
\* that is dropped changes nothing in the program, and the model keeps
\* count of the first few of them
TickerFires(max, counted) ==
    /\ Running
    /\ detPC \notin { "none", "init", "closing", "stopped" }
    /\ ticks < max
    /\ tickerC' = Send(tickerC)
    /\ ticks' = IF tickerC' # tickerC THEN ticks + 1 ELSE ticks
    /\ dropped' = IF tickerC' # tickerC \/ dropped >= counted
                  THEN dropped
                  ELSE dropped + 1
    /\ UNCHANGED << mainVars, port, store, mu, detPC, frame, setArg,
                    lastRead, httpVars, ghostVars, funVars >>

\* the ticker fires; dropped ticks are not counted
Tick == TickerFires(MaxTicks, 0)

\* a plausible slip: cancellation is acted on wherever the loop is
AtAnyStep == detPC \notin { "none", "init", "closing", "stopped" }

\* the loop is at its select statement
AtSelect == detPC = "select"

\* case <-ctx.Done(): return, and the deferred ticker.Stop()
DetSelectDone ==
    /\ Running
    /\ AtSelect
    /\ ctxDone
    /\ detPC' = "closing"
    /\ UNCHANGED << mainVars, port, store, mu, frame, setArg, tickerVars,
                    lastRead, httpVars, ghostVars, funVars >>

\* the deferred det.Close(): the goroutine has returned
DetClose ==
    /\ Running
    /\ detPC = "closing"
    /\ port' = "closed"
    /\ detPC' = "stopped"
    /\ UNCHANGED << mainVars, store, mu, frame, setArg, tickerVars,
                    lastRead, httpVars, ghostVars, funVars >>

\* a plausible slip: a frame number is skipped
NextFrameSkips(f) == f + 2

\* frame++
NextFrame(f) == f + 1

\* case <-ticker.C: frame++
DetSelectTick ==
    /\ Running
    /\ detPC = "select"
    /\ tickerC > 0
    /\ tickerC' = tickerC - 1
    /\ frame' = NextFrame(frame)
    /\ detPC' = "detect"
    /\ UNCHANGED << mainVars, port, store, mu, setArg, ticks, dropped,
                    lastRead, httpVars, ghostVars, funVars >>

\* ok := d.cap.Read(&img); !ok || img.Empty()
CapRead(in) == IF in.ok THEN "frame" ELSE "noframe"

\* source, faces, fw, fh := det.Detect(), and the Snapshot literal that
\* is the argument of store.Set
DetDetect ==
    /\ Running
    /\ detPC = "detect"
    /\ \E in \in DetectInputs :
          /\ setArg' = BuildSnapshot(frame, in, Now)
          /\ lastRead' = CapRead(in)
    /\ detPC' = "set_lock"
    /\ UNCHANGED << mainVars, port, store, mu, frame, tickerVars,
                    httpVars, ghostVars, funVars >>

\* an inference output with a row whose confidence is not a number
NaNInput ==
    [ok |-> TRUE, cols |-> 640, rows |-> 480,
     dets |-> << RawRow(NaN, 1, 1, 2, 2) >>]

\* det.Detect() when the network gives such an output, and the Snapshot
\* literal that is the argument of store.Set
DetDetectNaN ==
    /\ Running
    /\ detPC = "detect"
    /\ setArg' = BuildSnapshot(frame, NaNInput, Now)
    /\ lastRead' = CapRead(NaNInput)
    /\ detPC' = "set_lock"
    /\ UNCHANGED << mainVars, port, store, mu, frame, tickerVars,
                    httpVars, ghostVars, funVars >>

(* -------------------------------- FaceStore ----------------------------- *)

\* a plausible slip: the writer does not wait for the readers
CanLockOverReaders == ~mu.writer

\* a plausible slip: Set takes no lock at all
CanLockUnguarded == TRUE

\* s.mu.Lock() can be taken
CanLock == ~mu.writer /\ mu.readers = {}

\* s.mu.Lock()
SetLock ==
    /\ Running
    /\ detPC = "set_lock"
    /\ CanLock
    /\ mu' = [mu EXCEPT !.writer = TRUE]
    /\ detPC' = "set_copy"
    /\ UNCHANGED << mainVars, port, store, frame, setArg, tickerVars,
                    lastRead, httpVars, ghostVars, funVars >>

\* s.snap = snap is a copy of a multi-word struct: the first words
CopyHead(st, arg) ==
    [st EXCEPT !.snap.Source = arg.Source,
               !.snap.Frame = arg.Frame,
               !.snap.FrameWidth = arg.FrameWidth]

\* s.snap = snap: the remaining words
CopyTail(st, arg) ==
    [st EXCEPT !.snap.FrameHeight = arg.FrameHeight,
               !.snap.Detections = arg.Detections,
               !.snap.GeneratedAt = arg.GeneratedAt]

\* s.snap = snap: the first words
SetCopyHead ==
    /\ Running
    /\ detPC = "set_copy"
    /\ store' = CopyHead(store, setArg)
    /\ detPC' = "set_copy2"
    /\ UNCHANGED << mainVars, port, mu, frame, setArg, tickerVars, lastRead,
                    httpVars, ghostVars, funVars >>

\* s.snap = snap: the remaining words
SetCopyTail ==
    /\ Running
    /\ detPC = "set_copy2"
    /\ store' = CopyTail(store, setArg)
    /\ detPC' = "set_add"
    /\ UNCHANGED << mainVars, port, mu, frame, setArg, tickerVars, lastRead,
                    httpVars, ghostVars, funVars >>

\* a plausible slip: the counter is bumped twice
AddUint64Twice(v) == v + 2

\* atomic.AddUint64(&s.version, 1)
AddUint64(v) == v + 1

SetAddVersion ==
    /\ Running
    /\ detPC = "set_add"
    /\ store' = [store EXCEPT !.version = AddUint64(store.version)]
    /\ detPC' = "set_unlock"
    /\ UNCHANGED << mainVars, port, mu, frame, setArg, tickerVars, lastRead,
                    httpVars, ghostVars, funVars >>

\* s.mu.Unlock(): Set is complete; the loop logs and selects again
SetUnlock ==
    /\ Running
    /\ detPC = "set_unlock"
    /\ mu' = [mu EXCEPT !.writer = FALSE]
    /\ nset' = nset + 1
    /\ lastSet' = setArg
    /\ detPC' = "select"
    /\ UNCHANGED << mainVars, port, store, frame, setArg, tickerVars,
                    lastRead, httpVars, funVars >>

\* a plausible slip: Get does not wait for the writer
CanRLockUnguarded == TRUE

\* s.mu.RLock() can be taken
CanRLock == ~mu.writer

(* ------------------------------- HTTP layer ----------------------------- *)

\* the inside of a weak ETag W/"...": what toETag returned
BareToken(e) == SubSeq(e, 4, Len(e) - 1)

\* the If-None-Match values client c sends: none, the ETag of the last 200
\* it received (inmSeq: the number of completed Sets that response rested
\* on), or a value no response carried, that ETag without its W/"..."
INMChoices(c) ==
    { [inm |-> NoHeader, inmSeq |-> -1] } \cup
    IF cache[c] = NoCache
    THEN {}
    ELSE { [inm |-> cache[c].etag, inmSeq |-> cache[c].seq],
           [inm |-> BareToken(cache[c].etag), inmSeq |-> -1] }

\* a response to request r: with it, what the handler had read of the
\* store and whether a Set held the store lock when it was written
Response(r, status, header, body, read) ==
    [path |-> r.path, status |-> status, header |-> header, body |-> body,
     inm |-> r.inm, inmSeq |-> r.inmSeq, read |-> read,
     locked |-> mu.writer]

\* the server accepts a request of client c
Accepts(c) ==
    /\ Running
    /\ srv = "serving"
    /\ hpc[c] = "idle"
    /\ nreq < MaxRequests

\* a plausible slip: the liveness handler waits for the store lock
HealthzReadyLocked == ~mu.writer

\* what the /healthz handler waits for: nothing, it never touches the store
HealthzReady == TRUE

\* GET /healthz: w.WriteHeader(http.StatusOK); w.Write([]byte("ok"))
Healthz(c) ==
    /\ Accepts(c)
    /\ HealthzReady
    /\ nreq' = nreq + 1
    /\ resp' = [resp EXCEPT ![c] =
                   Response([path |-> "/healthz", inm |-> NoHeader,
                             inmSeq |-> -1],
                            StatusOK, EmptyHeaders, << "ok" >>, NoGot)]
    /\ hpc' = [hpc EXCEPT ![c] = "written"]
    /\ UNCHANGED << mainVars, store, mu, detVars, req, hdr, got, cache,
                    ghostVars, funVars >>

\* GET of any other path: the file server answers
Static(c) ==
    /\ Accepts(c)
    /\ nreq' = nreq + 1
    /\ resp' = [resp EXCEPT ![c] =
                   Response([path |-> "/", inm |-> NoHeader, inmSeq |-> -1],
                            StatusOK, EmptyHeaders, << "file" >>, NoGot)]
    /\ hpc' = [hpc EXCEPT ![c] = "written"]
    /\ UNCHANGED << mainVars, store, mu, detVars, req, hdr, got, cache,
                    ghostVars, funVars >>

\* GET /faces is accepted: the three header lines of the handler
FacesSetHeaders(c) ==
    /\ Accepts(c)
    /\ nreq' = nreq + 1
    /\ \E h \in INMChoices(c) :
          req' = [req EXCEPT ![c] =
                     [path |-> "/faces", inm |-> h.inm, inmSeq |-> h.inmSeq]]
    /\ hdr' = [hdr EXCEPT ![c] = FacesHeaders]
    /\ hpc' = [hpc EXCEPT ![c] = "get_rlock"]
    /\ UNCHANGED << mainVars, store, mu, detVars, got, resp, cache, ghostVars,
                    funVars >>

\* store.Get(): s.mu.RLock()
GetRLock(c) ==
    /\ Running
    /\ hpc[c] = "get_rlock"
    /\ CanRLock
    /\ mu' = [mu EXCEPT !.readers = @ \cup { c }]
    /\ hpc' = [hpc EXCEPT ![c] = "get_read"]
    /\ UNCHANGED << mainVars, store, detVars, req, hdr, got, resp, cache,
                    nreq, ghostVars, funVars >>

\* a plausible slip: Get counts its calls in the version
StoreAfterGetCounted(st) == [st EXCEPT !.version = @ + 1]

\* the FaceStore when Get returns: Get assigns no field of it
StoreAfterGet(st) == st

\* a plausible slip: the read lock is kept after Get has returned
RUnlockLate(m, c) == m

\* the deferred s.mu.RUnlock() of the reader c
RUnlock(m, c) == [m EXCEPT !.readers = @ \ { c }]

\* store.Get(): return s.snap, atomic.LoadUint64(&s.version), and the
\* deferred s.mu.RUnlock()
GetReturn(c) ==
    /\ Running
    /\ hpc[c] = "get_read"
    /\ got' = [got EXCEPT ![c] =
                  [snap |-> store.snap, ver |-> store.version,
                   seq |-> nset, arg |-> lastSet]]
    /\ store' = StoreAfterGet(store)
    /\ mu' = RUnlock(mu, c)
    /\ hpc' = [hpc EXCEPT ![c] = "respond"]
    /\ UNCHANGED << mainVars, detVars, req, hdr, resp, cache, nreq,
                    ghostVars, funVars >>

\* a plausible slip: the W/"..." wrapping is ignored in the comparison
NotModifiedBare(inm, etag) == inm = etag \/ inm = BareToken(etag)

\* a plausible slip: the handler never answers 304
NotModifiedNever(inm, etag) == FALSE

\* a plausible slip: any If-None-Match at all counts as a match
NotModifiedIfPresent(inm, etag) == inm # NoHeader

\* r.Header.Get("If-None-Match") == etag
NotModified(inm, etag) == inm = etag

\* /faces after store.Get(): the ETag, the If-None-Match test, and either
\* 304 or the ETag header and the encoded snapshot; the error of Encode is
\* dropped, and the server answers 200 for a handler that wrote nothing
FacesRespond(c) ==
    /\ Running
    /\ hpc[c] = "respond"
    /\ LET etag == WeakETag(got[c].ver, got[c].snap.Frame)
       IN IF NotModified(req[c].inm, etag)
          THEN resp' = [resp EXCEPT ![c] =
                           Response(req[c], StatusNotModified, hdr[c],
                                    << >>, got[c])]
          ELSE resp' = [resp EXCEPT ![c] =
                           Response(req[c], StatusOK,
                                    [hdr[c] EXCEPT !.etag = etag],
                                    IF EncodeFails(got[c].snap)
                                    THEN << >>
                                    ELSE << Encode(got[c].snap) >>,
                                    got[c])]
    /\ hdr' = [hdr EXCEPT ![c] = EmptyHeaders]
    /\ got' = [got EXCEPT ![c] = NoGot]
    /\ req' = [req EXCEPT ![c] = NoRequest]
    /\ hpc' = [hpc EXCEPT ![c] = "written"]
    /\ UNCHANGED << mainVars, store, mu, detVars, cache, nreq, ghostVars,
                    funVars >>

\* the handler has returned (loggingMiddleware logs the request) and the
\* client has the response: it keeps the ETag of a 200 of /faces
HandlerReturn(c) ==
    /\ Running
    /\ hpc[c] = "written"
    /\ cache' = IF resp[c].path = "/faces" /\ resp[c].status = StatusOK
                THEN [cache EXCEPT ![c] =
                         [etag |-> resp[c].header.etag,
                          seq |-> resp[c].read.seq]]
                ELSE cache
    /\ resp' = [resp EXCEPT ![c] = NoResponse]
    /\ hpc' = [hpc EXCEPT ![c] = "idle"]
    /\ UNCHANGED << mainVars, store, mu, detVars, req, hdr, got, nreq,
                    ghostVars, funVars >>

(* ------------------------- FaceStore, several tasks --------------------- *)

\* the locals f of the tasks, with the one of task k set to v
With(f, k, v) ==
    [x \in (DOMAIN f) \cup { k } |-> IF x = k THEN v ELSE f[x]]

\* the locals f of the tasks, without the one of task k
Without(f, k) == [x \in (DOMAIN f) \ { k } |-> f[x]]

\* what changes when a task other than the loop and the handlers uses the
\* store: the store, its lock and the tasks; the program stands still
idleVars == << mainVars, detVars, httpVars, etagVars, detectVars, portVars >>

\* task w calls store.Set with a Snapshot of its own: the k-th call made
\* passes frame k
TaskSet(w) ==
    /\ wpc[w] = "idle"
    /\ wsets < MaxSetCalls
    /\ wsets' = wsets + 1
    /\ \E in \in DetectInputs :
          warg' = With(warg, w, BuildSnapshot(wsets + 1, in, 1))
    /\ wpc' = [wpc EXCEPT ![w] = "set_lock"]
    /\ UNCHANGED << idleVars, store, mu, ghostVars, rpc, rgot >>

\* s.mu.Lock()
TaskSetLock(w) ==
    /\ wpc[w] = "set_lock"
    /\ CanLock
    /\ mu' = [mu EXCEPT !.writer = TRUE]
    /\ wpc' = [wpc EXCEPT ![w] = "set_copy"]
    /\ UNCHANGED << idleVars, store, ghostVars, warg, wsets, rpc, rgot >>

\* s.snap = snap: the first words
TaskSetCopyHead(w) ==
    /\ wpc[w] = "set_copy"
    /\ store' = CopyHead(store, warg[w])
    /\ wpc' = [wpc EXCEPT ![w] = "set_copy2"]
    /\ UNCHANGED << idleVars, mu, ghostVars, warg, wsets, rpc, rgot >>

\* s.snap = snap: the remaining words
TaskSetCopyTail(w) ==
    /\ wpc[w] = "set_copy2"
    /\ store' = CopyTail(store, warg[w])
    /\ wpc' = [wpc EXCEPT ![w] = "set_add"]
    /\ UNCHANGED << idleVars, mu, ghostVars, warg, wsets, rpc, rgot >>

\* atomic.AddUint64(&s.version, 1)
TaskSetAddVersion(w) ==
    /\ wpc[w] = "set_add"
    /\ store' = [store EXCEPT !.version = AddUint64(store.version)]
    /\ wpc' = [wpc EXCEPT ![w] = "set_unlock"]
    /\ UNCHANGED << idleVars, mu, ghostVars, warg, wsets, rpc, rgot >>

\* s.mu.Unlock(): Set is complete
TaskSetUnlock(w) ==
    /\ wpc[w] = "set_unlock"
    /\ mu' = [mu EXCEPT !.writer = FALSE]
    /\ nset' = nset + 1
    /\ lastSet' = warg[w]
    /\ warg' = Without(warg, w)
    /\ wpc' = [wpc EXCEPT ![w] = "idle"]
    /\ UNCHANGED << idleVars, store, wsets, rpc, rgot >>

\* task r calls store.Get
TaskGet(r) ==
    /\ rpc[r] = "idle"
    /\ rpc' = [rpc EXCEPT ![r] = "get_rlock"]
    /\ rgot' = Without(rgot, r)
    /\ UNCHANGED << idleVars, store, mu, ghostVars, wpc, warg, wsets >>

\* s.mu.RLock()
TaskGetRLock(r) ==
    /\ rpc[r] = "get_rlock"
    /\ CanRLock
    /\ mu' = [mu EXCEPT !.readers = @ \cup { r }]
    /\ rpc' = [rpc EXCEPT ![r] = "get_read"]
    /\ UNCHANGED << idleVars, store, ghostVars, wpc, warg, wsets, rgot >>

\* return s.snap, atomic.LoadUint64(&s.version), and the deferred
\* s.mu.RUnlock(); the task has the pair and may call Get again
TaskGetReturn(r) ==
    /\ rpc[r] = "get_read"
    /\ rgot' = With(rgot, r, [snap |-> store.snap, ver |-> store.version,
                               seq |-> nset, arg |-> lastSet])
    /\ store' = StoreAfterGet(store)
    /\ mu' = RUnlock(mu, r)
    /\ rpc' = [rpc EXCEPT ![r] = "idle"]
    /\ UNCHANGED << idleVars, ghostVars, wpc, warg, wsets >>

(* ----------------------------- specifications --------------------------- *)

Next ==
    \/ MainGetenv
    \/ MainGetenvFatal
    \/ MainGoDetector
    \/ HTTPListen
    \/ Signal
    \/ ShutdownBegin
    \/ ShutdownReturn
    \/ ServeReturn
    \/ DetInitOK
    \/ DetInitFatal
    \/ Tick
    \/ DetSelectDone
    \/ DetClose
    \/ DetSelectTick
    \/ DetDetect
    \/ SetLock
    \/ SetCopyHead
    \/ SetCopyTail
    \/ SetAddVersion
    \/ SetUnlock
    \/ \E c \in Clients : Healthz(c)
    \/ \E c \in Clients : Static(c)
    \/ \E c \in Clients : FacesSetHeaders(c)
    \/ \E c \in Clients : GetRLock(c)
    \/ \E c \in Clients : GetReturn(c)
    \/ \E c \in Clients : FacesRespond(c)
    \/ \E c \in Clients : HandlerReturn(c)

Spec == Init /\ [][Next]_vars

\* the program with a network whose confidences need not be numbers
NextNaN == Next \/ DetDetectNaN

SpecNaN == Init /\ [][NextNaN]_vars

\* the ticker fires, in the loop specification
LoopTick == TickerFires(MaxLoopTicks, MaxLoopDrops)

\* the program when no request arrives: main, the detector loop and the
\* store, over more ticks
NextLoop ==
    \/ MainGetenv
    \/ MainGetenvFatal
    \/ MainGoDetector
    \/ HTTPListen
    \/ Signal
    \/ ShutdownBegin
    \/ ShutdownReturn
    \/ ServeReturn
    \/ DetInitOK
    \/ DetInitFatal
    \/ LoopTick
    \/ DetSelectDone
    \/ DetClose
    \/ DetSelectTick
    \/ DetDetect
    \/ SetLock
    \/ SetCopyHead
    \/ SetCopyTail
    \/ SetAddVersion
    \/ SetUnlock

SpecLoop == Init /\ [][NextLoop]_vars

\* the same, with the scheduling of the Go runtime: a goroutine that can
\* take a step is not held back for ever, and a select whose ctx.Done()
\* case is ready again and again takes it in the end.  Nothing obliges a
\* signal to arrive or the ticker to fire
FairLoop ==
    /\ SpecLoop
    /\ WF_vars(ShutdownBegin \/ ShutdownReturn \/ ServeReturn)
    /\ WF_vars(DetSelectTick \/ DetDetect \/ DetClose)
    /\ WF_vars(SetLock \/ SetCopyHead \/ SetCopyTail \/ SetAddVersion
                 \/ SetUnlock)
    /\ SF_vars(DetSelectDone)

\* the port specification: one detector is made, and Close is called on it
PortInit ==
    /\ ProgramInit
    /\ etagIn = << >>
    /\ etagOut = << >>
    /\ detIn = << >>
    /\ detOut = << >>
    /\ dnn \in { [NoDetector EXCEPT !.cfg = c] : c \in PortConfigs }
    /\ NoTasks

\* det, err := NewDNNDetector(cfg)
PortNew ==
    /\ dnn.made = "no"
    /\ dnn' = MakeDetector(dnn.cfg)
    /\ UNCHANGED << mainVars, store, mu, detVars, httpVars, ghostVars,
                    etagVars, detectVars, taskVars >>

\* det.Close(), by whoever holds det
PortClose ==
    /\ dnn.made = "ok"
    /\ dnn.closes < MaxCloseCalls
    /\ dnn' = Close(dnn)
    /\ UNCHANGED << mainVars, store, mu, detVars, httpVars, ghostVars,
                    etagVars, detectVars, taskVars >>

PortNext == PortNew \/ PortClose

SpecPort == PortInit /\ [][PortNext]_vars

\* the writers specification: a fresh store used by several tasks at once
WritersInit ==
    /\ ProgramInit
    /\ etagIn = << >>
    /\ etagOut = << >>
    /\ detIn = << >>
    /\ detOut = << >>
    /\ NoPort
    /\ NoTasks

WritersNext ==
    \/ \E w \in Writers : TaskSet(w)
    \/ \E w \in Writers : TaskSetLock(w)
    \/ \E w \in Writers : TaskSetCopyHead(w)
    \/ \E w \in Writers : TaskSetCopyTail(w)
    \/ \E w \in Writers : TaskSetAddVersion(w)
    \/ \E w \in Writers : TaskSetUnlock(w)
    \/ \E r \in Readers : TaskGet(r)
    \/ \E r \in Readers : TaskGetRLock(r)
    \/ \E r \in Readers : TaskGetReturn(r)

SpecWriters == WritersInit /\ [][WritersNext]_vars

\* the (version, frame) pairs the token specification feeds to toETag
ETagPairs ==
    (0 .. MaxETagVersion) \X ((0 - MaxETagFrame) .. MaxETagFrame)

ETagInit ==
    /\ ProgramInit
    /\ etagIn \in { << p >> : p \in ETagPairs }
    /\ etagOut = << >>
    /\ detIn = << >>
    /\ detOut = << >>
    /\ NoPort
    /\ NoTasks

\* toETag applied to the first pair and to a second one
ETagApply ==
    /\ Len(etagIn) = 1
    /\ \E q \in ETagPairs :
          /\ etagIn' = Append(etagIn, q)
          /\ etagOut' = << toETag(etagIn[1][1], etagIn[1][2]),
                           toETag(q[1], q[2]) >>
    /\ UNCHANGED << mainVars, store, mu, detVars, httpVars, ghostVars,
                    detectVars, portVars, taskVars >>

ETagNext == ETagApply

SpecETag == ETagInit /\ [][ETagNext]_vars

\* the detection specification: a detector configured with cfg.Confidence
\* conf finds input in on its first tick
DetectInit ==
    /\ ProgramInit
    /\ detIn \in { << [conf |-> c, in |-> i] >> :
                      c \in ConfigValues, i \in FrameInputs }
    /\ detOut = << >>
    /\ etagIn = << >>
    /\ etagOut = << >>
    /\ NoPort
    /\ NoTasks

\* Detect and the Snapshot literal handed to Set, for frame 1 at time 1
DetectApply ==
    /\ Len(detOut) = 0
    /\ detOut' = << BuildSnapshotWith(1, detIn[1].in,
                                      ConfThresh(detIn[1].conf), 1) >>
    /\ UNCHANGED << mainVars, store, mu, detVars, httpVars, ghostVars,
                    etagVars, detIn, portVars, taskVars >>

DetectNext == DetectApply

SpecDetect == DetectInit /\ [][DetectNext]_vars

(* --------------------------------- properties ------------------------------*)

\* a handler of /faces that is back from store.Get()
Returned(c) == hpc[c] = "respond"

\* a handler that has written its response to a request for path
Wrote(c, path) == hpc[c] = "written" /\ resp[c].path = path

\* C1: the version counts the completed Set calls: whenever no Set is inside
\* its critical section the stored version is the number of completed Sets,
\* and every Get returns as version the number of Sets completed when it
\* took effect.
C1_VersionCountsSets ==
    /\ ~mu.writer => store.version = nset
    /\ \A c \in Clients : Returned(c) => got[c].ver = got[c].seq

\* a Get has returned version 1 after the first completed Set
C1_Witness ==
    \E c \in Clients : Returned(c) /\ got[c].seq >= 1 /\ got[c].ver >= 1

\* C2: the (snapshot, version) pair of every Get belongs together: version
\* k comes with the argument of the k-th completed Set (the zero snapshot
\* for k = 0), which is the last one set when Get took effect.
C2_PairBelongsTogether ==
    \A c \in Clients :
        Returned(c) =>
            /\ got[c].snap = got[c].arg
            /\ got[c].ver = got[c].seq
            /\ got[c].ver = 0 => got[c].snap = ZeroSnapshot

\* a Get that had to wait for a running Set has returned that Set's
\* argument with version 1
C2_Witness ==
    \E c \in Clients :
        /\ Returned(c)
        /\ got[c].ver >= 1
        /\ got[c].snap = setArg
        /\ got[c].snap.Frame >= 1

\* snap exists as a whole: it is the zero value, or a Snapshot
\* literal the loop can pass to Set
WholeSnapshot(snap) ==
    \/ snap = ZeroSnapshot
    \/ /\ snap.Frame \in 1 .. MaxTicks
       /\ snap.GeneratedAt \in 1 .. (MaxTicks + 1)
       /\ \E in \in DetectInputs :
             snap = BuildSnapshot(snap.Frame, in, snap.GeneratedAt)

\* C3: no Get returns a torn snapshot: while a reader is inside Get no Set
\* is inside its critical section, and every snapshot returned is a whole
\* one, with all its fields from the same Set (or all from the zero value).
C3_NoTornSnapshot ==
    /\ \A c \in mu.readers : ~mu.writer
    /\ \A c \in Clients : Returned(c) => WholeSnapshot(got[c].snap)

\* both clients called Get around the same Set: one returned the snapshot
\* held before it, the other the snapshot passed to it
C3_Witness ==
    \E c1, c2 \in Clients :
        /\ Returned(c1) /\ Returned(c2)
        /\ got[c1].snap = ZeroSnapshot
        /\ got[c2].snap = setArg
        /\ got[c2].snap # ZeroSnapshot

\* C4: until the first Set completes the store holds the zero snapshot and
\* version 0, and that is what Get returns.
C4_ZeroBeforeFirstSet ==
    /\ (nset = 0 /\ ~mu.writer) => store = [snap |-> ZeroSnapshot,
                                            version |-> 0]
    /\ \A c \in Clients :
          (Returned(c) /\ got[c].seq = 0) =>
              /\ got[c].snap = Snapshot("", 0, 0, 0, NilSlice, 0)
              /\ got[c].ver = 0

\* a Get has returned while the loop had not yet called Set
C4_Witness ==
    \E c \in Clients :
        /\ Returned(c)
        /\ got[c].seq = 0
        /\ frame = 0
        /\ detPC = "select"

\* C5: /faces answers 304 with an empty body exactly when If-None-Match
\* equals the ETag of the (version, frame) it read, and otherwise 200 with
\* the snapshot it read as JSON body and that ETag as ETag header.
C5_ConditionalGet ==
    \A c \in Clients :
        Wrote(c, "/faces") =>
            LET r == resp[c]
                etag == << "W", "/", "\"" >>
                          \o toETag(r.read.ver, r.read.snap.Frame)
                          \o << "\"" >>
            IN IF r.inm = etag
               THEN r.status = 304 /\ r.body = << >>
               ELSE /\ r.status = 200
                    /\ r.body = << Encode(r.read.snap) >>
                    /\ r.header.etag = etag

\* a 304 has been written for a snapshot some Set published
C5_Witness ==
    \E c \in Clients :
        /\ Wrote(c, "/faces")
        /\ resp[c].status = 304
        /\ resp[c].read.ver >= 1

\* C6: toETag is injective: two (version, frame) pairs have the same token
\* exactly when they are the same pair.
C6_ETagInjective ==
    Len(etagOut) = 2 => ((etagOut[1] = etagOut[2]) <=> (etagIn[1] = etagIn[2]))

\* toETag was applied to two pairs that differ only in the sign of the
\* frame, with a version of two base-36 digits
C6_Witness ==
    /\ Len(etagOut) = 2
    /\ etagIn[1][1] = etagIn[2][1]
    /\ etagIn[1][1] >= 36
    /\ etagIn[1][2] < 0
    /\ etagIn[2][2] = 0 - etagIn[1][2]
    /\ etagOut[1] # etagOut[2]

\* C7: /faces is idempotent between Sets: two 200 responses that rest on
\* the same number of completed Sets have the same body and the same ETag,
\* and a request that sends the ETag of such a response while no Set has
\* completed since is answered 304 with an empty body.
C7_Idempotent ==
    /\ \A c1, c2 \in Clients :
          ( /\ Wrote(c1, "/faces") /\ Wrote(c2, "/faces")
            /\ resp[c1].status = 200 /\ resp[c2].status = 200
            /\ resp[c1].read.seq = resp[c2].read.seq )
          => /\ resp[c1].body = resp[c2].body
             /\ resp[c1].header.etag = resp[c2].header.etag
    /\ \A c \in Clients :
          ( /\ Wrote(c, "/faces")
            /\ resp[c].inmSeq >= 0
            /\ resp[c].inmSeq = resp[c].read.seq )
          => resp[c].status = 304 /\ resp[c].body = << >>

\* after a Set one client got a 200, and with nothing set since, the other
\* client got a 200 with the same ETag and the first one a 304 for it
C7_Witness ==
    \E c1, c2 \in Clients :
        /\ c1 # c2
        /\ Wrote(c1, "/faces") /\ Wrote(c2, "/faces")
        /\ resp[c1].status = 304
        /\ resp[c2].status = 200
        /\ resp[c1].inmSeq = resp[c2].read.seq
        /\ resp[c1].read.seq = resp[c2].read.seq
        /\ resp[c1].inm = resp[c2].header.etag
        /\ resp[c2].read.seq >= 1

\* C8: no 304 for a stale snapshot: a request that sends the ETag of an
\* earlier response after a Set has completed since is answered 200, with
\* the snapshot last set as body and an ETag other than the one sent.
C8_No304WhenStale ==
    \A c \in Clients :
        ( /\ Wrote(c, "/faces")
          /\ resp[c].inmSeq >= 0
          /\ resp[c].inmSeq < resp[c].read.seq )
        => /\ resp[c].status = 200
           /\ resp[c].body = << Encode(resp[c].read.arg) >>
           /\ resp[c].header.etag # resp[c].inm

\* a client sent the ETag it got before the Set and was answered 200
C8_Witness ==
    \E c \in Clients :
        /\ Wrote(c, "/faces")
        /\ resp[c].inmSeq >= 0
        /\ resp[c].inmSeq < resp[c].read.seq
        /\ resp[c].status = 200

\* C9: every response of /faces carries Cache-Control: no-store and
\* Access-Control-Allow-Origin: *, and a 200 has the media type
\* application/json as Content-Type.
C9_FacesHeaders ==
    \A c \in Clients :
        Wrote(c, "/faces") =>
            /\ resp[c].header.cache = "no-store"
            /\ resp[c].header.acao = "*"
            /\ resp[c].status = 200 =>
                  /\ Len(resp[c].header.ctype) >= 1
                  /\ resp[c].header.ctype[1] = "application/json"

\* a 304 has been written, with both headers
C9_Witness ==
    \E c \in Clients :
        /\ Wrote(c, "/faces")
        /\ resp[c].status = 304
        /\ resp[c].header.cache = "no-store"
        /\ resp[c].header.acao = "*"

\* C10: /healthz answers 200 "ok" and does not depend on the store: the
\* handler can run whenever the server accepts the request, whatever the
\* detector loop is doing and whoever holds the store lock, and running it
\* leaves the store and its lock as they were.
C10_HealthzIndependent ==
    /\ [](\A c \in Clients :
             /\ Wrote(c, "/healthz") =>
                   resp[c].status = 200 /\ resp[c].body = << "ok" >>
             /\ Accepts(c) => ENABLED Healthz(c))
    /\ [][\A c \in Clients : Healthz(c) => UNCHANGED << store, mu >>]_vars

\* /healthz has answered while Set held the store lock, before any Set had
\* completed
C10_Witness ==
    \E c \in Clients :
        /\ Wrote(c, "/healthz")
        /\ resp[c].status = 200
        /\ resp[c].locked
        /\ nset = 0

\* C11: a failure of the start-up ends the process before the HTTP listener
\* starts: whenever the process has died of an initialisation error
\* (getenvRequired or NewDNNDetector), the server was not listening and no
\* request had been accepted.
C11_FatalBeforeListening ==
    proc = "fatal" => (atExit.srv = "new" /\ atExit.nreq = 0)

\* C17: the detector loop returns only from its select statement: when it
\* has returned, every cycle that was started has completed its Set, no Set
\* holds the store lock, the context is cancelled, and once the goroutine
\* is over the detector has been closed.
C17_NoMidCycleAbort ==
    /\ detPC \in { "closing", "stopped" } =>
          /\ ctxDone
          /\ nset = frame
          /\ store.version = frame
          /\ ~mu.writer
    /\ detPC = "stopped" => port = "closed"

\* the signal came during the first cycle: the loop completed it, then
\* returned and closed the detector
C17_Witness ==
    /\ detPC = "stopped"
    /\ port = "closed"
    /\ frame = 1
    /\ nset = 1
    /\ store.snap.Frame = 1

\* C18: the process does not exit while the detector loop is inside a
\* cycle or has not yet run Close: when main has returned, a detector that
\* had been opened was closed and the loop had returned.
C18_ExitAfterDetectorStopped ==
    (proc = "exited" /\ atExit.port # "none") =>
        (atExit.detPC = "stopped" /\ atExit.port = "closed")

\* C19: within the grace period of srv.Shutdown the process does not exit
\* while a request is in flight: when main has returned, no request that
\* the server had accepted was still without its response.
C19_ExitAfterDrain ==
    proc = "exited" => atExit.unanswered = {}

\* the detections of the snapshot the detection specification published
Published == detOut[1].Detections.elems

\* the threshold the detector applies, and the rows at or above it
Applied == ConfThresh(detIn[1].conf)
KeptRows == SelectSeq(detIn[1].in.dets, LAMBDA r : r.conf >= Applied)

\* C12: every published box lies inside the frame: 0 <= x <= frameWidth,
\* 0 <= y <= frameHeight, x + width <= frameWidth, y + height <=
\* frameHeight.
C12_BoxInsideFrame ==
    Len(detOut) = 1 =>
        \A j \in 1 .. Len(Published) :
            LET b == Published[j].BBox
                fw == detOut[1].FrameWidth
                fh == detOut[1].FrameHeight
            IN /\ 0 <= b.X /\ b.X <= fw
               /\ 0 <= b.Y /\ b.Y <= fh
               /\ b.X + b.Width <= fw
               /\ b.Y + b.Height <= fh

\* C13: no published box has a negative width or a negative height.
C13_NoNegativeExtent ==
    Len(detOut) = 1 =>
        \A j \in 1 .. Len(Published) :
            Published[j].BBox.Width >= 0 /\ Published[j].BBox.Height >= 0

\* C14: a row at or above the threshold whose scaled x2 < x1 (y2 < y1) is
\* kept and published with width (height) 0; the row (0.9, -0.1, 0.2, 0.5,
\* 0.1) on a 640 by 480 frame is published with x = 0, y = 96, width >= 0
\* and height = 0.
C14_InvertedCollapses ==
    Len(detOut) = 1 =>
        /\ Len(Published) = Len(KeptRows)
        /\ \A j \in 1 .. Len(KeptRows) :
              LET r == KeptRows[j]
                  b == Published[j].BBox
              IN /\ ScaleToPixels(r.x2n, 640) < ScaleToPixels(r.x1n, 640)
                       => b.Width = 0
                 /\ ScaleToPixels(r.y2n, 480) < ScaleToPixels(r.y1n, 480)
                       => b.Height = 0
                 /\ << r.x1n, r.y1n, r.x2n, r.y2n >> = << -1, 2, 5, 1 >>
                       => /\ b.X = 0 /\ b.Y = 96
                          /\ b.Width >= 0 /\ b.Height = 0

C16_IdIsKeptPosition ==
    Len(detOut) = 1 =>
        \A j \in 1 .. Len(Published) : Published[j].ID = j - 1

\* C20: when serialising the snapshot fails, the request is answered with
\* status 500: a response of /faces that is not a 304, for a snapshot that
\* encoding/json cannot encode, has status 500.
C20_EncodeFailureIs500 ==
    \A c \in Clients :
        ( /\ Wrote(c, "/faces")
          /\ resp[c].status # 304
          /\ \E i \in 1 .. Len(resp[c].read.snap.Detections.elems) :
                resp[c].read.snap.Detections.elems[i].Score = NaN )
        => resp[c].status = 500

BetweenCycles == detPC \in { "select", "closing", "stopped" }

\* the loop is inside store.Set
InsideSet ==
    detPC \in { "set_lock", "set_copy", "set_copy2", "set_add", "set_unlock" }

\* C22: every tick the loop handles adds exactly 1 to the frame counter and
\* leads to exactly one Set: the k-th snapshot published carries frame k,
\* the argument being built carries the frame counter, and the counter is
\* the number of Sets completed, plus one while a cycle is under way.
C22_FramesInOrder ==
    /\ nset > 0 => lastSet.Frame = nset
    /\ BetweenCycles => frame = nset
    /\ (detPC = "detect" \/ InsideSet) => frame = nset + 1
    /\ InsideSet => setArg.Frame = frame

\* three ticks handled: the third snapshot published carries frame 3
C22_Witness ==
    /\ detPC = "select"
    /\ nset = 3
    /\ lastSet.Frame = 3
    /\ store.snap.Frame = 3

\* a snapshot without a frame and without detections
Blank(snap) ==
    /\ snap.FrameWidth = 0
    /\ snap.FrameHeight = 0
    /\ Len(snap.Detections.elems) = 0

\* C23: a tick on which no frame can be read is published like any other:
\* the Snapshot passed to Set has no detection and is 0 by 0 and carries
\* the incremented frame counter; once Set is complete it is the stored
\* snapshot, the version has advanced with the frame counter, and the loop
\* is at its select again or in the next cycle.
C23_NoFramePublished ==
    lastRead = "noframe" =>
        /\ InsideSet => (Blank(setArg) /\ setArg.Frame = nset + 1)
        /\ ~InsideSet =>
              /\ detPC \in { "select", "detect", "closing", "stopped" }
              /\ nset > 0
              /\ Blank(lastSet)
              /\ lastSet.Frame = nset
              /\ store.snap = lastSet
              /\ store.version = nset

\* the second tick found no frame: its blank snapshot was published as
\* frame 2, version 2, and the loop is handling a third tick
C23_Witness ==
    /\ lastRead = "noframe"
    /\ detPC = "detect"
    /\ frame = 3
    /\ store.version = 2
    /\ store.snap.Frame = 2
    /\ Blank(store.snap)

\* C24: once the context is cancelled the loop starts no new cycle: the
\* select never takes the ticker case when the context is already done.
C24_NoCycleAfterCancel ==
    [][(detPC = "select" /\ detPC' = "detect") => ~ctxDone]_vars

\* C25: after the signal a loop that has opened its detector reaches its
\* stopped state, the goroutine returned and the detector closed.
C25_EventuallyStopped ==
    (ctxDone /\ port = "open") ~> (detPC = "stopped" /\ port = "closed")

\* C26: ticks are dropped, not queued: ticker.C never holds more than one
\* tick, every tick that entered it has started one cycle or is the one
\* pending, whatever number of ticks was dropped, and so the cycles never
\* outnumber the ticks fired.
C26_TicksDropped ==
    /\ tickerC \in { 0, 1 }
    /\ frame + tickerC = ticks
    /\ frame <= ticks + dropped

\* the first cycle overran: three ticks fired during it, one is pending
\* and two were dropped; the loop then ran one more cycle and owes none
C26_Witness ==
    /\ detPC = "select"
    /\ dropped = 2
    /\ ticks = 2
    /\ frame = 2
    /\ nset = 2
    /\ tickerC = 0

\* C30: the detector is opened once, by the loop, before the first cycle;
\* every cycle, and so every Detect, runs with the detector open; Close is
\* called once the loop has returned, when every Detect that was invoked
\* has returned and its snapshot is published.
C30_PortOwnedByLoop ==
    /\ detPC \in { "none", "init" } => port = "none"
    /\ (detPC \in { "select", "detect", "closing" } \/ InsideSet) =>
          port = "open"
    /\ port = "closed" => (detPC = "stopped" /\ frame = nset)

\* two cycles have run, then the loop returned and closed the detector
C30_Witness ==
    /\ port = "closed"
    /\ detPC = "stopped"
    /\ frame = 2
    /\ nset = 2

\* the store as the Set calls of the loop alone have made it: the argument
\* and the count of the completed Sets, and what the Set under way has
\* copied and added so far
LoopStore ==
    LET before == [snap |-> lastSet, version |-> nset]
    IN CASE detPC = "set_copy2" -> CopyHead(before, setArg)
         [] detPC = "set_add" -> CopyTail(CopyHead(before, setArg), setArg)
         [] detPC = "set_unlock" -> [snap |-> setArg, version |-> nset + 1]
         [] OTHER -> before

\* C27: handling a request never changes the store: whatever requests have
\* been accepted, are being handled or have been answered, the snapshot
\* and the version are what the Set calls of the detector loop have made
\* them, and nothing else.
C27_HandlersReadOnly == store = LoopStore

\* a request of /faces and one of /healthz have been answered, and the
\* store is as the one Set of the loop left it
C27_Witness ==
    \E c \in Clients, d \in Clients :
        /\ Wrote(c, "/faces")
        /\ resp[c].read.ver = 1
        /\ Wrote(d, "/healthz")
        /\ store.version = 1
        /\ store.snap = lastSet

\* C28: the store lock is never held across I/O: the write lock is held
\* only between the Lock and the Unlock of Set, never during Detect; the
\* read lock is held only inside Get, never while a handler encodes or
\* writes; so a reader can always enter during Detect.
C28_NoLockAcrossIO ==
    /\ mu.writer =>
          detPC \in { "set_copy", "set_copy2", "set_add", "set_unlock" }
    /\ mu.readers = { c \in Clients : hpc[c] = "get_read" }
    /\ detPC = "detect" => CanRLock

\* during Detect one handler is inside Get and another is writing its
\* response, its read lock released
C28_Witness ==
    /\ detPC = "detect"
    /\ \E c \in Clients, d \in Clients :
          /\ hpc[c] = "get_read"
          /\ c \in mu.readers
          /\ hpc[d] = "respond"
          /\ d \notin mu.readers

\* the tasks between the Lock and the Unlock of a Set
InsideLock ==
    { w \in Writers :
        wpc[w] \in { "set_copy", "set_copy2", "set_add", "set_unlock" } }

\* C29: with several tasks calling Set at once the store stays correct: at
\* most one is inside the lock; when none is, the version is the number of
\* Sets completed and the snapshot is the argument of the Set that held
\* the lock last; after the m calls made have all returned the version is
\* m; and every Get returns the snapshot and the version of one Set.
C29_SeveralWriters ==
    /\ Cardinality(InsideLock) <= 1
    /\ InsideLock = {} =>
          /\ store.version = nset
          /\ store.snap = lastSet
    /\ (\A w \in Writers : wpc[w] = "idle") => store.version = wsets
    /\ \A r \in Readers :
          r \in DOMAIN rgot =>
              /\ rgot[r].ver = rgot[r].seq
              /\ rgot[r].snap = rgot[r].arg
              /\ rgot[r].snap.Frame \in 0 .. wsets

\* one Set is complete and a Get has returned its pair; one task holds the
\* lock for the second Set while the other waits with the third
C29_Witness ==
    /\ wpc["w1"] = "set_copy2"
    /\ wpc["w2"] = "set_lock"
    /\ wsets = 3
    /\ nset = 1
    /\ "r1" \in DOMAIN rgot
    /\ rgot["r1"].ver = 1
    /\ rgot["r1"].snap = lastSet

\* C31: a NewDNNDetector that fails leaves no capture behind: on every
\* failing path a capture that was obtained has been closed.
C31_FailureReleasesCapture ==
    (dnn.made \notin { "no", "ok" } /\ dnn.cap = "handle") =>
        dnn.capCloses = 1

\* C32: with the loop as the only caller of Set, the version is the frame
\* number of the held snapshot whenever no Set is inside its critical
\* section, every Get returns a version equal to the frame of the snapshot
\* it returns, and both are 0 as long as no Set is complete.
C32_VersionIsFrame ==
    /\ ~mu.writer => store.version = store.snap.Frame
    /\ nset = 0 /\ ~mu.writer => store.version = 0
    /\ \A c \in Clients :
          Returned(c) =>
              /\ got[c].ver = got[c].snap.Frame
              /\ got[c].seq = 0 => got[c].ver = 0

\* one Get has returned before the first Set and one after it: (frame 0,
\* version 0) and (frame 1, version 1)
C32_Witness ==
    \E c \in Clients, d \in Clients :
        /\ Returned(c)
        /\ got[c].ver = 0
        /\ got[c].snap.Frame = 0
        /\ Returned(d)
        /\ got[d].ver = 1
        /\ got[d].snap.Frame = 1

\* C33: within one snapshot the ids are strictly increasing along the
\* detection list, and so pairwise distinct.
C33_IdsIncreasing ==
    Len(detOut) = 1 =>
        \A j \in 1 .. Len(Published), k \in 1 .. Len(Published) :
            j < k => Published[j].ID < Published[k].ID

\* the middle row of three was below the threshold: the two published
\* detections carry the ids 0 and 2
C33_Witness ==
    /\ Len(detOut) = 1
    /\ Len(detIn[1].in.dets) = 3
    /\ Len(Published) = 2
    /\ Published[1].ID = 0
    /\ Published[2].ID = 2

\* the confidences of the rows at or above t, in order
ScoresFrom(t) ==
    LET kept == SelectSeq(detIn[1].in.dets, LAMBDA r : r.conf >= t)
    IN [j \in 1 .. Len(kept) |-> kept[j].conf]

\* the confidences published, in order
PublishedScores == [j \in 1 .. Len(Published) |-> Published[j].Score]

\* C34: a configured threshold that is zero or negative is replaced by
\* 0.5: the rows published are those at or above 0.5, so a row of
\* confidence 0.3 is not; a positive threshold is applied as configured.
C34_NonPositiveThreshold ==
    Len(detOut) = 1 =>
        /\ detIn[1].conf <= 0 =>
              /\ PublishedScores = ScoresFrom(5)
              /\ \A j \in 1 .. Len(Published) : Published[j].Score # 3
        /\ detIn[1].conf > 0 => PublishedScores = ScoresFrom(detIn[1].conf)

\* FACE_CONF=0 and rows of confidence 0.3 and 0.6: only the second is
\* published
C34_Witness ==
    /\ Len(detOut) = 1
    /\ detIn[1].conf = 0
    /\ Len(detIn[1].in.dets) = 2
    /\ detIn[1].in.dets[1].conf = 3
    /\ detIn[1].in.dets[2].conf = 6
    /\ PublishedScores = << 6 >>

====
